---- MODULE Spec2Model ----
(***************************************************************************)
(* N-body playground: the scenario registry (SimulationManager), the       *)
(* ping-pong GPU resources (SimulationResources, RenderConfig), the camera *)
(* and the per-frame protocol of Renderer::render, as driven by the winit  *)
(* event handler App::window_event.                                        *)
(*                                                                         *)
(* Units.  f32 quantities are kept in fixed point:                         *)
(*   time      milliseconds      (0.016 s = 16)                            *)
(*   zoom      thousandths       (1.0 = 1000, 0.1 = 100, 10.0 = 10000)     *)
(*   rotation  hundredths of rad (TAU = 628); rotate(delta) adds           *)
(*             delta * 0.01 rad, i.e. delta units                          *)
(*   zoom delta  tenths          (0.5 = 5)                                 *)
(* A Body is kept by what distinguishes it: the scenario that produced it, *)
(* its slot, its kind, the rng draw it came from and the number of kernel  *)
(* steps applied to it on the GPU.                                         *)
(***************************************************************************)
EXTENDS Integers, Sequences, FiniteSets, TLC

\* ------------------------------------------------------------------------
\* Program constants
\* ------------------------------------------------------------------------
NUM_BODIES == 2
COMPUTE_WORKGROUP_SIZE == 64
MAX_DELTA_TIME == 16
INITIAL_DELTA_TIME == 1
ZOOM_DEFAULT == 1000
ZOOM_MIN == 100
ZOOM_MAX == 10000
ZOOM_SPEED_DIV == 100
TAU == 628
ORTHO_HEIGHT == 500
SOLAR_PLANETS == 9

\* ------------------------------------------------------------------------
\* Bounds of the model
\* ------------------------------------------------------------------------
MaxFrames == 3
MaxEvents == 2
MaxSeed == 2
MaxCount == 30
MaxPushes == 2
MaxMouseEvents == 5
MaxRegistryOps == 4
MaxSwitches == 2
MaxReads == 1
MaxFrameEvents == 2
MaxReadbacks == 2

Seeds == 1..MaxSeed
Counts == 0..MaxCount
PushCounts == (0..(NUM_BODIES + 1)) \cup {SOLAR_PLANETS + 2}
ElapsedMs == {5, 40}
WindowSizes == {<<800, 600>>, <<600, 600>>}
SwitchIndices == {0, 1}
PanDeltas == {<<0, 10>>, <<-10, 0>>}
ZoomDeltas == {0, 5, 900, -90, 100000, -100000}
RotateDeltas == {157, -157, 628}
CursorPositions == {<<0, 0>>, <<157, 0>>}
ScenarioNames == {"Galaxy", "EarthMoon", "SolarSystem"}

Min(a, b) == IF a < b THEN a ELSE b

\* ------------------------------------------------------------------------
\* Scenario providers
\* ------------------------------------------------------------------------
NullBody == [kind |-> "null", sim |-> "none", idx |-> 0, rnd |-> 0, steps |-> 0]

HostBody(k, s, i, r) == [kind |-> k, sim |-> s, idx |-> i, rnd |-> r, steps |-> 0]

\* galaxy.rs: one central sun, then `for _ in 1..count` random disc bodies.
GalaxyInitializeBodies(count, seed) ==
    <<HostBody("sun", "Galaxy", 0, 0)>> \o
    [i \in 1..(IF count > 1 THEN count - 1 ELSE 0) |-> HostBody("disc", "Galaxy", i, seed)]

\* earth_moon.rs: create_empty_bodies(count)
create_empty_bodies(count) == [i \in 1..count |-> NullBody]

\* earth_moon.rs: the sun, then null bodies when count exceeds what was pushed.
EarthMoonInitializeBodies(count, seed) ==
    LET fixed == <<HostBody("sun", "EarthMoon", 0, 0)>>
    IN  IF count > Len(fixed)
        THEN fixed \o create_empty_bodies(count - Len(fixed))
        ELSE fixed

\* solar_system.rs: the sun, nine planets, then random debris up to count.
SolarSystemInitializeBodies(count, seed) ==
    LET fixed == <<HostBody("sun", "SolarSystem", 0, 0)>> \o
                 [i \in 1..SOLAR_PLANETS |-> HostBody("planet", "SolarSystem", i, 0)]
    IN  IF count > Len(fixed)
        THEN fixed \o [j \in 1..(count - Len(fixed)) |->
                          HostBody("debris", "SolarSystem", Len(fixed) + j - 1, seed)]
        ELSE fixed

\* trait Simulation::initialize_bodies, dispatched on the provider.
initialize_bodies(sim, count, seed) ==
    CASE sim = "Galaxy" -> GalaxyInitializeBodies(count, seed)
      [] sim = "EarthMoon" -> EarthMoonInitializeBodies(count, seed)
      [] OTHER -> SolarSystemInitializeBodies(count, seed)

camera_position(sim) ==
    CASE sim = "Galaxy" -> <<0, 20, 200>>
      [] sim = "EarthMoon" -> <<0, 300, 20>>
      [] OTHER -> <<0, 100, 200>>

camera_target(sim) == <<0, 0, 0>>

\* ------------------------------------------------------------------------
\* Scenario registry (SimulationManager)
\* ------------------------------------------------------------------------
simulations == <<"SolarSystem">>

\* simulations[i] with the 0-based index the code uses
SimulationAt(i) == simulations[i + 1]

reinitialize_bodies(index, seed) == initialize_bodies(SimulationAt(index), NUM_BODIES, seed)

\* Fault model: the population moved out of the registry instead of cloned.
GetBodiesTakes(pop) == [held |-> <<>>, copy |-> pop]

\* SimulationManager::get_bodies: bodies.lock().unwrap().clone().  held is
\* what the registry holds afterwards, copy is what the caller receives.
get_bodies(pop) == [held |-> pop, copy |-> pop]

\* Fault model: next() at the last scenario wraps to the first one.
NextSimulationWraps(index, pop, seed) ==
    IF index < Len(simulations) - 1
    THEN [index |-> index + 1, bodies |-> reinitialize_bodies(index + 1, seed), ok |-> TRUE]
    ELSE [index |-> 0, bodies |-> reinitialize_bodies(0, seed), ok |-> TRUE]

\* Each switch returns the new (index, bodies) and the boolean result.
next_simulation(index, pop, seed) ==
    IF index < Len(simulations) - 1
    THEN [index |-> index + 1, bodies |-> reinitialize_bodies(index + 1, seed), ok |-> TRUE]
    ELSE [index |-> index, bodies |-> pop, ok |-> FALSE]

\* Fault model: previous() without the test for the first scenario.
PreviousSimulationUnguarded(index, pop, seed) ==
    [index |-> index - 1, bodies |-> pop, ok |-> TRUE]

previous_simulation(index, pop, seed) ==
    IF index > 0
    THEN [index |-> index - 1, bodies |-> reinitialize_bodies(index - 1, seed), ok |-> TRUE]
    ELSE [index |-> index, bodies |-> pop, ok |-> FALSE]

\* Fault model: the index stored without the test against the list's length.
SwitchToSimulationUnchecked(index, pop, target, seed) ==
    [index |-> target, bodies |-> pop, ok |-> TRUE]

\* Fault model: the new population appended to the old one.
SwitchToSimulationExtends(index, pop, target, seed) ==
    IF target < Len(simulations)
    THEN [index |-> target, bodies |-> pop \o reinitialize_bodies(target, seed), ok |-> TRUE]
    ELSE [index |-> index, bodies |-> pop, ok |-> FALSE]

switch_to_simulation(index, pop, target, seed) ==
    IF target < Len(simulations)
    THEN [index |-> target, bodies |-> reinitialize_bodies(target, seed), ok |-> TRUE]
    ELSE [index |-> index, bodies |-> pop, ok |-> FALSE]

\* View matrices are kept by what they are computed from.
LookAt(eye, target, rotation, offset) ==
    [eye |-> eye, target |-> target, rotation |-> rotation, offset |-> offset]

\* SimulationManager::update_simulation_state: look_at(camera_position, camera_target)
ManagerViewMatrix(index) ==
    LookAt(camera_position(SimulationAt(index)), camera_target(SimulationAt(index)), 0, <<0, 0>>)

\* ------------------------------------------------------------------------
\* Camera
\* ------------------------------------------------------------------------
CameraNew(base_height) ==
    [offset |-> <<0, 0>>, zoom |-> ZOOM_DEFAULT, rotation |-> 0, base_height |-> base_height,
     mouse_pressed |-> FALSE, last_mouse_position |-> <<0, 0>>,
     ctrl_pressed |-> FALSE, shift_pressed |-> FALSE]

\* sin and cos at the quarter turns the model's rotations take
Sin(r) == CASE r = 157 -> 1 [] r = 471 -> -1 [] OTHER -> 0
Cos(r) == CASE r = 314 -> -1 [] r = 157 -> 0 [] r = 471 -> 0 [] OTHER -> 1

calculate_view_matrix(cam, base_position) ==
    LookAt(<<base_position[1], (base_position[2] * ZOOM_DEFAULT) \div cam.zoom, base_position[3]>>,
           <<0, 0, 0>>, cam.rotation, cam.offset)

\* Fault model: a pan that also sets the rotation back to 0.
CameraPanRecentres(cam, dx, dy) ==
    [cam EXCEPT !.offset =
        <<cam.offset[1] + ((dx * Cos(cam.rotation) - dy * Sin(cam.rotation)) * ZOOM_DEFAULT) \div cam.zoom,
          cam.offset[2] + ((dx * Sin(cam.rotation) + dy * Cos(cam.rotation)) * ZOOM_DEFAULT) \div cam.zoom>>,
                !.rotation = 0]

\* Camera::pan
CameraPan(cam, dx, dy) ==
    [cam EXCEPT !.offset =
        <<cam.offset[1] + ((dx * Cos(cam.rotation) - dy * Sin(cam.rotation)) * ZOOM_DEFAULT) \div cam.zoom,
          cam.offset[2] + ((dx * Sin(cam.rotation) + dy * Cos(cam.rotation)) * ZOOM_DEFAULT) \div cam.zoom>>]

Clamp(x, lo, hi) == IF x < lo THEN lo ELSE IF x > hi THEN hi ELSE x

\* Fault model: zoom without the clamp.
CameraZoomUnclamped(cam, delta) ==
    [cam EXCEPT !.zoom = (cam.zoom * (ZOOM_SPEED_DIV + delta)) \div ZOOM_SPEED_DIV]

CameraZoom(cam, delta) ==
    [cam EXCEPT !.zoom = Clamp((cam.zoom * (ZOOM_SPEED_DIV + delta)) \div ZOOM_SPEED_DIV, ZOOM_MIN, ZOOM_MAX)]

RECURSIVE WrapDown(_)
WrapDown(r) == IF r > TAU THEN WrapDown(r - TAU) ELSE r

RECURSIVE WrapUp(_)
WrapUp(r) == IF r < 0 THEN WrapUp(r + TAU) ELSE r

CameraRotate(cam, delta) == [cam EXCEPT !.rotation = WrapUp(WrapDown(cam.rotation + delta))]

CameraHandleMousePress(cam, position, ctrl, shift) ==
    [cam EXCEPT !.mouse_pressed = TRUE, !.last_mouse_position = position,
                !.ctrl_pressed = ctrl, !.shift_pressed = shift]

CameraHandleMouseRelease(cam) == [cam EXCEPT !.mouse_pressed = FALSE]

\* Fault model: a move without a modifier still records the position.
CameraHandleMouseMoveTracksIdle(cam, position) ==
    LET dx == position[1] - cam.last_mouse_position[1]
        dy == position[2] - cam.last_mouse_position[2]
    IN  IF cam.mouse_pressed /\ cam.ctrl_pressed
        THEN [cam |-> [CameraPan(cam, dx, dy) EXCEPT !.last_mouse_position = position], moved |-> TRUE]
        ELSE IF cam.mouse_pressed /\ cam.shift_pressed
        THEN [cam |-> [CameraRotate(cam, dx) EXCEPT !.last_mouse_position = position], moved |-> TRUE]
        ELSE [cam |-> [cam EXCEPT !.last_mouse_position = position], moved |-> FALSE]

\* Fault model: shift tested ahead of ctrl.
CameraHandleMouseMoveShiftFirst(cam, position) ==
    LET dx == position[1] - cam.last_mouse_position[1]
        dy == position[2] - cam.last_mouse_position[2]
    IN  IF cam.mouse_pressed /\ cam.shift_pressed
        THEN [cam |-> [CameraRotate(cam, dx) EXCEPT !.last_mouse_position = position], moved |-> TRUE]
        ELSE IF cam.mouse_pressed /\ cam.ctrl_pressed
        THEN [cam |-> [CameraPan(cam, dx, dy) EXCEPT !.last_mouse_position = position], moved |-> TRUE]
        ELSE [cam |-> cam, moved |-> FALSE]

\* Fault model: a move that applies the delta but keeps the old position.
CameraHandleMouseMoveKeepsLast(cam, position) ==
    LET dx == position[1] - cam.last_mouse_position[1]
        dy == position[2] - cam.last_mouse_position[2]
    IN  IF cam.mouse_pressed /\ cam.ctrl_pressed
        THEN [cam |-> CameraPan(cam, dx, dy), moved |-> TRUE]
        ELSE IF cam.mouse_pressed /\ cam.shift_pressed
        THEN [cam |-> CameraRotate(cam, dx), moved |-> TRUE]
        ELSE [cam |-> cam, moved |-> FALSE]

\* Camera::handle_mouse_move: the new camera and whether it moved
CameraHandleMouseMove(cam, position) ==
    LET dx == position[1] - cam.last_mouse_position[1]
        dy == position[2] - cam.last_mouse_position[2]
    IN  IF cam.mouse_pressed /\ cam.ctrl_pressed
        THEN [cam |-> [CameraPan(cam, dx, dy) EXCEPT !.last_mouse_position = position], moved |-> TRUE]
        ELSE IF cam.mouse_pressed /\ cam.shift_pressed
        THEN [cam |-> [CameraRotate(cam, dx) EXCEPT !.last_mouse_position = position], moved |-> TRUE]
        ELSE [cam |-> cam, moved |-> FALSE]

CameraHandleKeyState(cam, ctrl, shift) == [cam EXCEPT !.ctrl_pressed = ctrl, !.shift_pressed = shift]

\* ------------------------------------------------------------------------
\* GPU resources
\* ------------------------------------------------------------------------
\* RenderConfig::new, bind group layout: per binding, the stages that see it
\* and whether it is read-only.  Bindings 0 and 1 are the body buffers.
bind_group_layout ==
    [binding0 |-> [visibility |-> {"COMPUTE", "VERTEX"}, read_only |-> TRUE],
     binding1 |-> [visibility |-> {"COMPUTE"}, read_only |-> FALSE]]

\* Fault model: the second bind group built with the write binding pasted
\* from the read binding.
BindGroupsAliased ==
    (0 :> [binding0 |-> 0, binding1 |-> 1]) @@
    (1 :> [binding0 |-> 1, binding1 |-> 1])

\* RenderConfig::create_bind_groups: which body buffer each binding of each
\* bind group refers to.
bind_groups ==
    (0 :> [binding0 |-> 0, binding1 |-> 1]) @@
    (1 :> [binding0 |-> 1, binding1 |-> 0])

\* The body buffers a stage can reach through a bind group.
StageBuffers(stage, group) ==
    (IF stage \in bind_group_layout.binding0.visibility THEN {bind_groups[group].binding0} ELSE {}) \cup
    (IF stage \in bind_group_layout.binding1.visibility THEN {bind_groups[group].binding1} ELSE {})

\* The buffer the compute kernel reads (the read-only binding) and the one it writes.
ComputeReadBuffer(group) == bind_groups[group].binding0
ComputeWriteBuffer(group) == bind_groups[group].binding1

\* The body buffer the vertex stage of the draw call reads.
DrawReadBuffer(group) == CHOOSE b \in StageBuffers("VERTEX", group) : TRUE

\* Fault model: the render pass set to the bind group of the other index.
RenderPassOtherGroup(cur) == 1 - cur

\* Fault model: the compute pass always given the first bind group.
ComputePassGroupZero(cur) == 0

\* Renderer::render: the bind group set for the compute pass and for the render pass.
ComputePassBindGroup(cur) == cur
RenderPassBindGroup(cur) == cur

\* Fault model: the workgroup count rounded down.
WorkgroupCountFloor == NUM_BODIES \div COMPUTE_WORKGROUP_SIZE

\* Renderer::render: workgroup_count
WorkgroupCount == (NUM_BODIES + COMPUTE_WORKGROUP_SIZE - 1) \div COMPUTE_WORKGROUP_SIZE

\* Fault models: a swap that sets the index instead of flipping it, and a swap
\* that leaves it alone.
SwapBuffersSetsOne(cur) == 1
SwapBuffersNoFlip(cur) == cur

\* SimulationResources::swap_buffers
swap_buffers(cur) == 1 - cur

\* Fault model: only the first record of the new population is written.
UpdateBodiesFirstOnly(buffers, cur, data) ==
    IF Len(data) > Len(buffers[cur])
    THEN [ok |-> FALSE, target |-> cur, buffers |-> buffers]
    ELSE [ok |-> TRUE, target |-> cur,
          buffers |-> [buffers EXCEPT ![cur] =
                          SubSeq(data, 1, 1) \o SubSeq(buffers[cur], 2, Len(buffers[cur]))]]

\* Fault model: the new population written into the buffer that is not current.
UpdateBodiesOther(buffers, cur, data) ==
    IF Len(data) > Len(buffers[1 - cur])
    THEN [ok |-> FALSE, target |-> 1 - cur, buffers |-> buffers]
    ELSE [ok |-> TRUE, target |-> 1 - cur,
          buffers |-> [buffers EXCEPT ![1 - cur] =
                          data \o SubSeq(buffers[1 - cur], Len(data) + 1, Len(buffers[1 - cur]))]]

\* SimulationResources::update_bodies: queue.write_buffer(
\* body_buffers[current_buffer], 0, data).  wgpu writes the bytes it is given
\* at the offset it is given, and raises a validation error, leaving the
\* buffer alone, only when they overrun the buffer.
update_bodies(buffers, cur, data) ==
    IF Len(data) > Len(buffers[cur])
    THEN [ok |-> FALSE, target |-> cur, buffers |-> buffers]
    ELSE [ok |-> TRUE, target |-> cur,
          buffers |-> [buffers EXCEPT ![cur] =
                          data \o SubSeq(buffers[cur], Len(data) + 1, Len(buffers[cur]))]]

\* The compute kernel: given the read buffer and a time step, the contents of
\* the write buffer.
Kernel(input, dt) == [i \in 1..Len(input) |-> [input[i] EXCEPT !.steps = @ + 1]]

ZeroDebugData == [iterations |-> 0]

\* Fault model: the staging buffer's bytes returned whatever the map result.
ReadDebugDataUnchecked(debug, mapOk) == debug

\* SimulationResources::read_debug_data: the mapped contents, or zeros when
\* the map request fails.
read_debug_data(debug, mapOk) == IF mapOk THEN debug ELSE ZeroDebugData

\* Mat4::orthographic_rh(-width, width, -height, height, ..) with width = height * aspect
Orthographic(w, h) == [width |-> (ORTHO_HEIGHT * w) \div h, height |-> ORTHO_HEIGHT]

\* One command as seen by the queue, the surface or the resource manager.
Cmd(op, buf, group, read, write, n) ==
    [op |-> op, buf |-> buf, group |-> group, read |-> read, write |-> write, n |-> n]

\* Renderer::update: the queue writes it issues, in order.  push is the result
\* of update_bodies when a scenario switch was pending.
UpdateCommands(changed, push, nbodies, dt) ==
    IF changed /\ ~push.ok
    THEN <<>>
    ELSE (IF changed THEN <<Cmd("write_bodies", push.target, -1, -1, -1, nbodies)>> ELSE <<>>) \o
         <<Cmd("write_uniform", -1, -1, -1, -1, dt)>>

\* Fault model: the render pass recorded ahead of the compute pass.
RenderCommandsDrawFirst(cur) ==
    <<Cmd("draw", -1, RenderPassBindGroup(cur), DrawReadBuffer(RenderPassBindGroup(cur)),
          -1, NUM_BODIES),
      Cmd("dispatch", -1, ComputePassBindGroup(cur),
          ComputeReadBuffer(ComputePassBindGroup(cur)),
          ComputeWriteBuffer(ComputePassBindGroup(cur)), WorkgroupCount),
      Cmd("present", -1, -1, -1, -1, 0),
      Cmd("swap", -1, -1, -1, -1, 0)>>

\* Renderer::render after update(): compute pass, render pass, present, swap.
RenderCommands(cur) ==
    <<Cmd("dispatch", -1, ComputePassBindGroup(cur),
          ComputeReadBuffer(ComputePassBindGroup(cur)),
          ComputeWriteBuffer(ComputePassBindGroup(cur)), WorkgroupCount),
      Cmd("draw", -1, RenderPassBindGroup(cur), DrawReadBuffer(RenderPassBindGroup(cur)),
          -1, NUM_BODIES),
      Cmd("present", -1, -1, -1, -1, 0),
      Cmd("swap", -1, -1, -1, -1, 0)>>

\* ------------------------------------------------------------------------
\* State
\* ------------------------------------------------------------------------
VARIABLES
    current_simulation_index, bodies,
    body_buffers, simulation_state_buffer, debug_buffer, current_buffer,
    size, simulation_state, show_info, simulation_changed, camera, app,
    gpuLog, swaps, presents, events, panicked, lastOp, debugOut, pending_switches,
    provSim, provCount, provOut,
    pushArg, pushResult, pushes,
    eventLimit, regTrace, conc, readback

registryVars == <<current_simulation_index, bodies>>
resourceVars == <<body_buffers, simulation_state_buffer, debug_buffer, current_buffer>>
rendererVars == <<size, simulation_state, show_info, simulation_changed, camera, app>>
historyVars == <<gpuLog, swaps, presents, events, panicked, lastOp, debugOut, pending_switches>>
providerVars == <<provSim, provCount, provOut>>
pushVars == <<pushArg, pushResult, pushes>>
focusVars == <<eventLimit, regTrace, conc, readback>>

vars == <<current_simulation_index, bodies,
          body_buffers, simulation_state_buffer, debug_buffer, current_buffer,
          size, simulation_state, show_info, simulation_changed, camera, app,
          gpuLog, swaps, presents, events, panicked, lastOp, debugOut, pending_switches,
          provSim, provCount, provOut, pushArg, pushResult, pushes,
          eventLimit, regTrace, conc, readback>>

\* ------------------------------------------------------------------------
\* Construction
\* ------------------------------------------------------------------------
\* SimulationManager::new, SimulationResources::new, Renderer::new, App::default
RendererNew(seed, initialSize) ==
    /\ current_simulation_index = 0
    /\ bodies = initialize_bodies(SimulationAt(0), NUM_BODIES, seed)
    /\ body_buffers = [b \in 0..1 |-> bodies]
    /\ simulation_state = [delta_time |-> INITIAL_DELTA_TIME,
                           view_matrix |-> ManagerViewMatrix(0),
                           projection_matrix |-> [width |-> ORTHO_HEIGHT, height |-> ORTHO_HEIGHT]]
    /\ simulation_state_buffer = simulation_state
    /\ debug_buffer = ZeroDebugData
    /\ current_buffer = 0
    /\ size = initialSize
    /\ show_info = TRUE
    /\ simulation_changed = FALSE
    /\ camera = CameraNew(camera_position(SimulationAt(0))[2])
    /\ app = [ctrl_pressed |-> FALSE, shift_pressed |-> FALSE, last_cursor |-> <<0, 0>>]
    /\ gpuLog = <<>>
    /\ swaps = 0
    /\ presents = 0
    /\ events = 0
    /\ panicked = FALSE
    /\ lastOp = [name |-> "new", ok |-> TRUE, arg |-> <<0, 0>>]
    /\ debugOut = ZeroDebugData
    /\ pending_switches = 0

IdleProviders ==
    /\ provSim = "none"
    /\ provCount = 0
    /\ provOut = <<>>

IdlePush ==
    /\ pushArg = <<>>
    /\ pushResult = "none"
    /\ pushes = 0

\* No call on the registry alone has been made.
IdleRegistry == regTrace = <<>>

\* No thread is inside get_bodies or reinitialize_bodies.
IdleThreads ==
    conc = [mutex |-> "free", gen |-> 0,
            reader |-> [pc |-> "idle", pos |-> 0, copy |-> <<>>, during |-> "idle", reads |-> 0],
            writer |-> [pc |-> "idle", new |-> <<>>, switches |-> 0]]

\* No read_debug_data call has been made.
IdleReadback ==
    readback = [pc |-> "idle", staging |-> ZeroDebugData, sender |-> "none", chan |-> <<>>,
                got |-> "none", fired |-> 0, received |-> 0, requests |-> 0]

Init ==
    /\ \E seed \in Seeds, s \in WindowSizes : RendererNew(seed, s)
    /\ IdleProviders
    /\ IdlePush
    /\ IdleRegistry
    /\ IdleThreads
    /\ IdleReadback
    /\ eventLimit = MaxEvents

\* ------------------------------------------------------------------------
\* The frame: App::window_event(RedrawRequested) -> Renderer::render
\* ------------------------------------------------------------------------
\* Fault model: the elapsed time passed on as it is.
ClampDeltaTimeNone(dt) == dt

\* Renderer::update: dt.min(0.016)
ClampDeltaTime(dt) == Min(dt, MAX_DELTA_TIME)

\* Renderer::update followed by the rest of Renderer::render.  dt is the wall
\* time since the previous frame; surfaceOk is whether get_current_texture
\* returned a texture (the code panics on the expect otherwise).  The frame
\* records in lastOp.arg[2] how many successful switches it found pending.
Render(dt, surfaceOk) ==
    LET clamped_dt == ClampDeltaTime(dt)
        view1 == IF simulation_changed
                 THEN ManagerViewMatrix(current_simulation_index)
                 ELSE simulation_state.view_matrix
        got == get_bodies(bodies)
        push == IF simulation_changed
                THEN update_bodies(body_buffers, current_buffer, got.copy)
                ELSE [ok |-> TRUE, target |-> -1, buffers |-> body_buffers]
        state1 == [simulation_state EXCEPT !.delta_time = clamped_dt, !.view_matrix = view1]
        log1 == UpdateCommands(simulation_changed, push, Len(bodies), clamped_dt)
        cgroup == ComputePassBindGroup(current_buffer)
        rbuf == ComputeReadBuffer(cgroup)
        wbuf == ComputeWriteBuffer(cgroup)
        buffers2 == [push.buffers EXCEPT ![wbuf] = Kernel(push.buffers[rbuf], clamped_dt)]
    IN  /\ ~panicked
        /\ presents < MaxFrames
        /\ simulation_state' = state1
        /\ simulation_state_buffer' = IF push.ok THEN state1 ELSE simulation_state_buffer
        /\ simulation_changed' = IF push.ok THEN FALSE ELSE simulation_changed
        /\ IF push.ok /\ surfaceOk
           THEN /\ body_buffers' = buffers2
                /\ debug_buffer' = [debug_buffer EXCEPT !.iterations = @ + 1]
                /\ gpuLog' = log1 \o RenderCommands(current_buffer)
                /\ show_info' = FALSE
                /\ presents' = presents + 1
                /\ current_buffer' = swap_buffers(current_buffer)
                /\ swaps' = swaps + 1
                /\ panicked' = FALSE
                /\ lastOp' = [name |-> "render", ok |-> TRUE, arg |-> <<dt, pending_switches>>]
           ELSE /\ body_buffers' = push.buffers
                /\ gpuLog' = log1
                /\ panicked' = TRUE
                /\ lastOp' = [name |-> "render", ok |-> FALSE, arg |-> <<dt, pending_switches>>]
                /\ UNCHANGED <<debug_buffer, show_info, presents, current_buffer, swaps>>
        /\ bodies' = IF simulation_changed THEN got.held ELSE bodies
        /\ pending_switches' = IF push.ok THEN 0 ELSE pending_switches
        /\ UNCHANGED <<current_simulation_index, size, camera, app, events, debugOut,
                       providerVars, pushVars, focusVars>>

RedrawRequested == \E dt \in ElapsedMs, surfaceOk \in BOOLEAN : Render(dt, surfaceOk)

\* ------------------------------------------------------------------------
\* Input events: App::window_event -> Renderer
\* ------------------------------------------------------------------------
InputGuard == ~panicked /\ events < eventLimit

\* Renderer::update_camera_view
update_camera_view(cam, index) == calculate_view_matrix(cam, camera_position(SimulationAt(index)))

\* Fault model: a successful switch flips the pending flag instead of setting it.
ApplySwitchToggles(name, target, r) ==
    /\ InputGuard
    /\ current_simulation_index' = r.index
    /\ bodies' = r.bodies
    /\ simulation_changed' = IF r.ok THEN ~simulation_changed ELSE simulation_changed
    /\ show_info' = IF r.ok THEN TRUE ELSE show_info
    /\ lastOp' = [name |-> name, ok |-> r.ok, arg |-> <<target, current_simulation_index>>]
    /\ events' = events + 1
    /\ pending_switches' = IF r.ok THEN pending_switches + 1 ELSE pending_switches
    /\ UNCHANGED <<resourceVars, size, simulation_state, camera, app,
                   gpuLog, swaps, presents, panicked, debugOut, providerVars, pushVars, focusVars>>

\* Fault model: the pending flag set whatever the registry answered.
ApplySwitchAlwaysMarks(name, target, r) ==
    /\ InputGuard
    /\ current_simulation_index' = r.index
    /\ bodies' = r.bodies
    /\ simulation_changed' = TRUE
    /\ show_info' = IF r.ok THEN TRUE ELSE show_info
    /\ lastOp' = [name |-> name, ok |-> r.ok, arg |-> <<target, current_simulation_index>>]
    /\ events' = events + 1
    /\ pending_switches' = IF r.ok THEN pending_switches + 1 ELSE pending_switches
    /\ UNCHANGED <<resourceVars, size, simulation_state, camera, app,
                   gpuLog, swaps, presents, panicked, debugOut, providerVars, pushVars, focusVars>>

\* Applies the result r of a registry switch as Renderer::switch_simulation,
\* next_simulation and previous_simulation do.
ApplySwitch(name, target, r) ==
    /\ InputGuard
    /\ current_simulation_index' = r.index
    /\ bodies' = r.bodies
    /\ simulation_changed' = IF r.ok THEN TRUE ELSE simulation_changed
    /\ show_info' = IF r.ok THEN TRUE ELSE show_info
    /\ lastOp' = [name |-> name, ok |-> r.ok, arg |-> <<target, current_simulation_index>>]
    /\ events' = events + 1
    /\ pending_switches' = IF r.ok THEN pending_switches + 1 ELSE pending_switches
    /\ UNCHANGED <<resourceVars, size, simulation_state, camera, app,
                   gpuLog, swaps, presents, panicked, debugOut, providerVars, pushVars, focusVars>>

\* Fault model: a successful switch that also re-seeds the camera.
SwitchSimulationResetsCamera ==
    \E target \in SwitchIndices, seed \in Seeds :
        LET r == switch_to_simulation(current_simulation_index, bodies, target, seed)
        IN  /\ InputGuard
            /\ current_simulation_index' = r.index
            /\ bodies' = r.bodies
            /\ simulation_changed' = IF r.ok THEN TRUE ELSE simulation_changed
            /\ show_info' = IF r.ok THEN TRUE ELSE show_info
            /\ camera' = IF r.ok THEN CameraNew(camera_position(SimulationAt(r.index))[2]) ELSE camera
            /\ lastOp' = [name |-> "switch_simulation", ok |-> r.ok,
                          arg |-> <<target, current_simulation_index>>]
            /\ events' = events + 1
            /\ pending_switches' = IF r.ok THEN pending_switches + 1 ELSE pending_switches
            /\ UNCHANGED <<resourceVars, size, simulation_state, app,
                           gpuLog, swaps, presents, panicked, debugOut,
                           providerVars, pushVars, focusVars>>

SwitchSimulation ==
    \E target \in SwitchIndices, seed \in Seeds :
        ApplySwitch("switch_simulation", target,
                    switch_to_simulation(current_simulation_index, bodies, target, seed))

NextSimulation ==
    \E seed \in Seeds :
        ApplySwitch("next_simulation", current_simulation_index + 1,
                    next_simulation(current_simulation_index, bodies, seed))

PreviousSimulation ==
    \E seed \in Seeds :
        ApplySwitch("previous_simulation", current_simulation_index - 1,
                    previous_simulation(current_simulation_index, bodies, seed))

ToggleInfo ==
    /\ InputGuard
    /\ show_info' = TRUE
    /\ lastOp' = [name |-> "toggle_info", ok |-> TRUE, arg |-> <<0, 0>>]
    /\ events' = events + 1
    /\ UNCHANGED <<registryVars, resourceVars, size, simulation_state, simulation_changed,
                   camera, app, gpuLog, swaps, presents, panicked, debugOut, pending_switches,
                   providerVars, pushVars, focusVars>>

\* A camera operation of the Renderer: the camera changes to cam and, when
\* refresh holds, update_camera_view recomputes the view matrix.
CameraEvent(name, arg, cam, refresh, newApp) ==
    /\ InputGuard
    /\ camera' = cam
    /\ app' = newApp
    /\ simulation_state' =
          IF refresh
          THEN [simulation_state EXCEPT !.view_matrix = update_camera_view(cam, current_simulation_index)]
          ELSE simulation_state
    /\ lastOp' = [name |-> name, ok |-> refresh, arg |-> arg]
    /\ events' = events + 1
    /\ UNCHANGED <<registryVars, resourceVars, size, show_info, simulation_changed,
                   gpuLog, swaps, presents, panicked, debugOut, pending_switches,
                   providerVars, pushVars, focusVars>>

PanCamera == \E d \in PanDeltas : CameraEvent("pan_camera", d, CameraPan(camera, d[1], d[2]), TRUE, app)

ZoomCamera == \E d \in ZoomDeltas : CameraEvent("zoom_camera", <<d, 0>>, CameraZoom(camera, d), TRUE, app)

RotateCamera == \E d \in RotateDeltas : CameraEvent("rotate_camera", <<d, 0>>, CameraRotate(camera, d), TRUE, app)

\* Fault model: a reset that keeps the zoom.
ResetCameraKeepsZoom ==
    CameraEvent("reset_camera", <<0, 0>>,
                [CameraNew(camera_position(SimulationAt(current_simulation_index))[2])
                    EXCEPT !.zoom = camera.zoom], TRUE, app)

\* Renderer::reset_camera
ResetCamera ==
    CameraEvent("reset_camera", <<0, 0>>,
                CameraNew(camera_position(SimulationAt(current_simulation_index))[2]), TRUE, app)

MouseWheel == \E d \in ZoomDeltas : CameraEvent("handle_mouse_wheel", <<d, 0>>, CameraZoom(camera, d), TRUE, app)

ModifiersChanged ==
    \E ctrl \in BOOLEAN, shift \in BOOLEAN :
        CameraEvent("handle_key_state", <<0, 0>>, CameraHandleKeyState(camera, ctrl, shift), FALSE,
                    [app EXCEPT !.ctrl_pressed = ctrl, !.shift_pressed = shift])

MousePressed ==
    CameraEvent("handle_mouse_press", app.last_cursor,
                CameraHandleMousePress(camera, app.last_cursor, app.ctrl_pressed, app.shift_pressed),
                FALSE, app)

MouseReleased == CameraEvent("handle_mouse_release", <<0, 0>>, CameraHandleMouseRelease(camera), FALSE, app)

CursorMoved ==
    \E p \in CursorPositions :
        LET r == CameraHandleMouseMove(camera, p)
        IN  CameraEvent("handle_mouse_move", p, r.cam, r.moved, [app EXCEPT !.last_cursor = p])

\* Fault model: a resize that also re-seeds the view matrix from the scenario.
ResizedResetsView ==
    \E s \in WindowSizes :
        /\ InputGuard
        /\ size' = s
        /\ simulation_state' =
              [simulation_state EXCEPT !.projection_matrix = Orthographic(s[1], s[2]),
                                       !.view_matrix = ManagerViewMatrix(current_simulation_index)]
        /\ simulation_state_buffer' = simulation_state'
        /\ lastOp' = [name |-> "resize", ok |-> TRUE, arg |-> s]
        /\ events' = events + 1
        /\ UNCHANGED <<registryVars, body_buffers, debug_buffer, current_buffer,
                       show_info, simulation_changed, camera, app,
                       gpuLog, swaps, presents, panicked, debugOut, pending_switches,
                       providerVars, pushVars, focusVars>>

\* Renderer::resize
Resized ==
    \E s \in WindowSizes :
        /\ InputGuard
        /\ size' = s
        /\ simulation_state' =
              [simulation_state EXCEPT !.projection_matrix = Orthographic(s[1], s[2])]
        /\ simulation_state_buffer' = simulation_state'
        /\ lastOp' = [name |-> "resize", ok |-> TRUE, arg |-> s]
        /\ events' = events + 1
        /\ UNCHANGED <<registryVars, body_buffers, debug_buffer, current_buffer,
                       show_info, simulation_changed, camera, app,
                       gpuLog, swaps, presents, panicked, debugOut, pending_switches,
                       providerVars, pushVars, focusVars>>

\* SimulationResources::read_debug_data
DebugReadback ==
    \E mapOk \in BOOLEAN :
        /\ InputGuard
        /\ debugOut' = read_debug_data(debug_buffer, mapOk)
        /\ lastOp' = [name |-> "read_debug_data", ok |-> mapOk, arg |-> <<0, 0>>]
        /\ events' = events + 1
        /\ UNCHANGED <<registryVars, resourceVars, rendererVars,
                       gpuLog, swaps, presents, panicked, pending_switches,
                       providerVars, pushVars, focusVars>>

Next ==
    \/ RedrawRequested
    \/ SwitchSimulation
    \/ NextSimulation
    \/ PreviousSimulation
    \/ ToggleInfo
    \/ PanCamera
    \/ ZoomCamera
    \/ RotateCamera
    \/ ResetCamera
    \/ MouseWheel
    \/ ModifiersChanged
    \/ MousePressed
    \/ MouseReleased
    \/ CursorMoved
    \/ Resized
    \/ DebugReadback

Spec == Init /\ [][Next]_vars

\* ------------------------------------------------------------------------
\* The scenario providers on their own: initialize_bodies applied to every
\* provider and count.
\* ------------------------------------------------------------------------
InitProviders == Init

CallInitializeBodies ==
    \E sim \in ScenarioNames, n \in Counts, seed \in Seeds :
        /\ provSim' = sim
        /\ provCount' = n
        /\ provOut' = initialize_bodies(sim, n, seed)
        /\ UNCHANGED <<registryVars, resourceVars, rendererVars, historyVars, pushVars, focusVars>>

NextProviders == CallInitializeBodies

SpecProviders == InitProviders /\ [][NextProviders]_vars

\* ------------------------------------------------------------------------
\* The resource manager on its own: update_bodies called with the population
\* of any provider at any count, and swap_buffers.
\* ------------------------------------------------------------------------
InitPush == Init

CallUpdateBodies ==
    \E sim \in ScenarioNames, n \in PushCounts, seed \in Seeds :
        LET data == initialize_bodies(sim, n, seed)
            r == update_bodies(body_buffers, current_buffer, data)
        IN  /\ pushes < MaxPushes
            /\ pushes' = pushes + 1
            /\ pushArg' = data
            /\ pushResult' = IF r.ok THEN "accepted" ELSE "validation_error"
            /\ body_buffers' = r.buffers
            /\ UNCHANGED <<registryVars, simulation_state_buffer, debug_buffer, current_buffer,
                           rendererVars, historyVars, providerVars, focusVars>>

CallSwapBuffers ==
    /\ swaps < MaxFrames
    /\ swaps' = swaps + 1
    /\ current_buffer' = swap_buffers(current_buffer)
    /\ UNCHANGED <<registryVars, body_buffers, simulation_state_buffer, debug_buffer,
                   rendererVars, gpuLog, presents, events, panicked, lastOp, debugOut,
                   pending_switches, providerVars, pushVars, focusVars>>

NextPush == CallUpdateBodies \/ CallSwapBuffers

SpecPush == InitPush /\ [][NextPush]_vars

\* ------------------------------------------------------------------------
\* The registry on its own: switch_to_simulation, next_simulation and
\* previous_simulation called in any order.  regTrace records, per call, its
\* name, the index asked for, the active index before it and its result.
\* ------------------------------------------------------------------------
InitRegistry == Init

RegistryCall(name, target, r) ==
    /\ Len(regTrace) < MaxRegistryOps
    /\ current_simulation_index' = r.index
    /\ bodies' = r.bodies
    /\ regTrace' = Append(regTrace, [name |-> name, target |-> target,
                                      before |-> current_simulation_index, ok |-> r.ok])
    /\ UNCHANGED <<resourceVars, rendererVars, historyVars, providerVars, pushVars,
                   eventLimit, conc, readback>>

\* Indices a caller of the registry may pass: any usize, a very large one included.
RegistryIndices == SwitchIndices \cup {2, 2147483647}

CallSwitchToSimulation ==
    \E target \in RegistryIndices, seed \in Seeds :
        RegistryCall("switch_to_simulation", target,
                     switch_to_simulation(current_simulation_index, bodies, target, seed))

CallNextSimulation ==
    \E seed \in Seeds :
        RegistryCall("next_simulation", current_simulation_index + 1,
                     next_simulation(current_simulation_index, bodies, seed))

CallPreviousSimulation ==
    \E seed \in Seeds :
        RegistryCall("previous_simulation", current_simulation_index - 1,
                     previous_simulation(current_simulation_index, bodies, seed))

NextRegistry == CallSwitchToSimulation \/ CallNextSimulation \/ CallPreviousSimulation

SpecRegistry == InitRegistry /\ [][NextRegistry]_vars

\* ------------------------------------------------------------------------
\* Mouse and modifier events on their own, in longer runs than Spec allows:
\* ModifiersChanged, MouseInput pressed and released, CursorMoved.
\* ------------------------------------------------------------------------
InitMouse ==
    /\ \E seed \in Seeds, s \in WindowSizes : RendererNew(seed, s)
    /\ IdleProviders
    /\ IdlePush
    /\ IdleRegistry
    /\ IdleThreads
    /\ IdleReadback
    /\ eventLimit = MaxMouseEvents

NextMouse == ModifiersChanged \/ MousePressed \/ MouseReleased \/ CursorMoved

SpecMouse == InitMouse /\ [][NextMouse]_vars

\* ------------------------------------------------------------------------
\* Frames and scenario switches on their own: RedrawRequested and the keys
\* that switch the scenario.
\* ------------------------------------------------------------------------
InitFrames ==
    /\ \E seed \in Seeds, s \in WindowSizes : RendererNew(seed, s)
    /\ IdleProviders
    /\ IdlePush
    /\ IdleRegistry
    /\ IdleThreads
    /\ IdleReadback
    /\ eventLimit = MaxFrameEvents

NextFrames == RedrawRequested \/ SwitchSimulation \/ NextSimulation \/ PreviousSimulation

SpecFrames == InitFrames /\ [][NextFrames]_vars

\* ------------------------------------------------------------------------
\* read_debug_data step by step, between frames: the copy into the staging
\* buffer, map_async with its one-shot channel, device.poll(Wait) during
\* which the GPU resolves the map request, receiver.recv() and the return.
\* ------------------------------------------------------------------------
InitReadback == Init

MapOutcomes == {"ok", "error", "closed"}

ReadbackStep(newReadback) ==
    /\ readback' = newReadback
    /\ UNCHANGED <<registryVars, resourceVars, rendererVars, gpuLog, swaps, presents, events,
                   panicked, lastOp, pending_switches, providerVars, pushVars,
                   eventLimit, regTrace, conc>>

\* encoder.copy_buffer_to_buffer(debug_buffer -> staging_buffer); queue.submit
ReadbackCopies ==
    /\ readback.pc \in {"idle", "returned"}
    /\ readback.requests < MaxReadbacks
    /\ ~panicked
    /\ ReadbackStep([pc |-> "copied", staging |-> debug_buffer, sender |-> "none", chan |-> <<>>,
                     got |-> "none", fired |-> 0, received |-> 0,
                     requests |-> readback.requests + 1])
    /\ UNCHANGED debugOut

\* mpsc::channel(); slice.map_async(Read, move |result| sender.send(result))
ReadbackMapAsync ==
    /\ readback.pc = "copied"
    /\ ReadbackStep([readback EXCEPT !.pc = "polling", !.sender = "alive"])
    /\ UNCHANGED debugOut

\* Inside device.poll: the GPU resolves the map request.  The callback is
\* run with Ok or with an error and sends that once; or it is dropped
\* without being run, which closes the channel.
GpuResolvesMap ==
    \E outcome \in MapOutcomes :
        /\ readback.pc = "polling"
        /\ readback.sender = "alive"
        /\ ReadbackStep(IF outcome = "closed"
                        THEN [readback EXCEPT !.sender = "dropped"]
                        ELSE [readback EXCEPT !.sender = "sent", !.chan = <<outcome>>,
                                              !.fired = @ + 1])
        /\ UNCHANGED debugOut

\* Fault model: MaintainBase::Poll, which returns without waiting.
PollNoWait(sender) == TRUE

\* device.poll(MaintainBase::Wait) returns once the map request is resolved.
PollWait(sender) == sender # "alive"

ReadbackPollReturns ==
    /\ readback.pc = "polling"
    /\ PollWait(readback.sender)
    /\ ReadbackStep([readback EXCEPT !.pc = "receiving"])
    /\ UNCHANGED debugOut

\* receiver.recv(): blocks until a message is there or the sender is gone
ReadbackRecv ==
    /\ readback.pc = "receiving"
    /\ readback.chan # <<>> \/ readback.sender = "dropped"
    /\ ReadbackStep([readback EXCEPT !.pc = "received", !.chan = <<>>, !.received = @ + 1,
                                     !.got = IF readback.chan # <<>>
                                             THEN Head(readback.chan) ELSE "closed"])
    /\ UNCHANGED debugOut

\* if let Ok(Ok(_)) = .. { mapped data } else { zeros }
ReadbackReturns ==
    /\ readback.pc = "received"
    /\ debugOut' = read_debug_data(readback.staging, readback.got = "ok")
    /\ ReadbackStep([readback EXCEPT !.pc = "returned"])

\* A frame between two readbacks; the caller of read_debug_data is blocked
\* while one is under way.
FrameBetweenReadbacks ==
    /\ readback.pc \in {"idle", "returned"}
    /\ RedrawRequested

NextReadback ==
    \/ FrameBetweenReadbacks
    \/ ReadbackCopies
    \/ ReadbackMapAsync
    \/ GpuResolvesMap
    \/ ReadbackPollReturns
    \/ ReadbackRecv
    \/ ReadbackReturns

SpecReadback == InitReadback /\ [][NextReadback]_vars

\* The caller runs its next statement whenever it can, and the GPU
\* eventually resolves a map request it was given.
ReadbackFairness ==
    /\ WF_vars(ReadbackMapAsync)
    /\ WF_vars(GpuResolvesMap)
    /\ WF_vars(ReadbackPollReturns)
    /\ WF_vars(ReadbackRecv)
    /\ WF_vars(ReadbackReturns)

SpecReadbackFair == InitReadback /\ [][NextReadback]_vars /\ ReadbackFairness

\* ------------------------------------------------------------------------
\* The registry's mutex: one thread inside get_bodies, another inside
\* switch_to_simulation(0), interleaved at the steps the mutex allows.
\* conc.gen counts the assignments to the held Vec; the reader tags every
\* element it clones with the assignment it came from.
\* ------------------------------------------------------------------------
InitThreads == Init

\* Fault model: a lock that is granted while another thread holds it.
MutexLockNoExclusion(m, who) == [ok |-> TRUE, mutex |-> who]

\* Mutex::lock: granted only when no thread holds the mutex.
MutexLock(m, who) == [ok |-> m = "free", mutex |-> who]

ThreadStep(newConc) ==
    /\ conc' = newConc
    /\ UNCHANGED <<current_simulation_index, resourceVars, rendererVars, historyVars,
                   providerVars, pushVars, eventLimit, regTrace, readback>>

\* get_bodies: self.bodies.lock()
ReaderLock ==
    LET l == MutexLock(conc.mutex, "reader")
    IN  /\ conc.reader.pc \in {"idle", "returned", "mutated"}
        /\ conc.reader.reads < MaxReads
        /\ l.ok
        /\ ThreadStep([conc EXCEPT !.mutex = l.mutex,
                                   !.reader = [@ EXCEPT !.pc = "cloning", !.pos = 0, !.copy = <<>>,
                                                        !.during = conc.writer.pc]])
        /\ UNCHANGED bodies

\* get_bodies: Vec::clone copies the next element
ReaderClone ==
    /\ conc.reader.pc = "cloning"
    /\ conc.reader.pos < Len(bodies)
    /\ ThreadStep([conc EXCEPT !.reader.pos = @ + 1,
                               !.reader.copy = Append(@, [body |-> bodies[conc.reader.pos + 1],
                                                          gen |-> conc.gen])])
    /\ UNCHANGED bodies

\* get_bodies: the guard is dropped and the clone returned
ReaderUnlock ==
    /\ conc.reader.pc = "cloning"
    /\ conc.reader.pos = Len(bodies)
    /\ ThreadStep([conc EXCEPT !.mutex = "free", !.reader.pc = "returned", !.reader.reads = @ + 1])
    /\ UNCHANGED bodies

\* The caller overwrites the first element of the Vec it was given.
ReaderMutatesCopy ==
    /\ conc.reader.pc = "returned"
    /\ conc.reader.copy # <<>>
    /\ ThreadStep([conc EXCEPT !.reader.pc = "mutated", !.reader.copy[1].body = NullBody])
    /\ UNCHANGED bodies

\* reinitialize_bodies: initialize_bodies(NUM_BODIES), before the lock is taken
WriterInitializes ==
    \E seed \in Seeds :
        /\ conc.writer.pc = "idle"
        /\ conc.writer.switches < MaxSwitches
        /\ switch_to_simulation(current_simulation_index, bodies, 0, seed).ok
        /\ ThreadStep([conc EXCEPT !.writer.pc = "has_new",
                                   !.writer.new = reinitialize_bodies(0, seed)])
        /\ UNCHANGED bodies

\* reinitialize_bodies: self.bodies.lock()
WriterLock ==
    LET l == MutexLock(conc.mutex, "writer")
    IN  /\ conc.writer.pc = "has_new"
        /\ l.ok
        /\ ThreadStep([conc EXCEPT !.mutex = l.mutex, !.writer.pc = "locked"])
        /\ UNCHANGED bodies

\* reinitialize_bodies: *guard = new_bodies
WriterStore ==
    /\ conc.writer.pc = "locked"
    /\ bodies' = conc.writer.new
    /\ ThreadStep([conc EXCEPT !.writer.pc = "stored", !.gen = @ + 1])

\* reinitialize_bodies: the guard is dropped
WriterUnlock ==
    /\ conc.writer.pc = "stored"
    /\ ThreadStep([conc EXCEPT !.mutex = "free", !.writer.pc = "idle", !.writer.new = <<>>,
                               !.writer.switches = @ + 1])
    /\ UNCHANGED bodies

NextThreads ==
    \/ ReaderLock
    \/ ReaderClone
    \/ ReaderUnlock
    \/ ReaderMutatesCopy
    \/ WriterInitializes
    \/ WriterLock
    \/ WriterStore
    \/ WriterUnlock

SpecThreads == InitThreads /\ [][NextThreads]_vars

\* ------------------------------------------------------------------------
\* Reading the command log of the most recent frame
\* ------------------------------------------------------------------------
LogOps == [i \in 1..Len(gpuLog) |-> gpuLog[i].op]

LogHas(log, op) == \E i \in 1..Len(log) : log[i].op = op

LogPos(log, op) == CHOOSE i \in 1..Len(log) : log[i].op = op

LogCount(log, op) == Cardinality({i \in 1..Len(log) : log[i].op = op})

\* The most recent render call ran to its end.
FrameCompleted == gpuLog # <<>> /\ ~panicked

\* A clone taken from one assignment of the held Vec, all of it.
WholeCopy(copy, index) ==
    /\ \A i, j \in 1..Len(copy) : copy[i].gen = copy[j].gen
    /\ \E seed \in Seeds :
          [i \in 1..Len(copy) |-> copy[i].body] =
              initialize_bodies(SimulationAt(index), NUM_BODIES, seed)

\* The three scenario-switching operations of the Renderer.
SwitchOps == {"switch_simulation", "next_simulation", "previous_simulation"}

\* The dispatch recorded in a frame's command log.
Dispatch(log) == log[LogPos(log, "dispatch")]

\* This step is a call of Renderer::render, completed or stopped by a panic.
RenderStep == presents' # presents \/ panicked' # panicked

\* This step is the input event of the given name.
EventStep(name) == events' = events + 1 /\ lastOp'.name = name

\* Deltas past which one zoom call reaches a limit from any zoom in range:
\* the factor 1 + delta * 0.1 is at least ZOOM_MAX / ZOOM_MIN, or at most
\* ZOOM_MIN / ZOOM_MAX.
LargeZoomIn == (ZOOM_MAX \div ZOOM_MIN - 1) * ZOOM_SPEED_DIV
LargeZoomOut == 1 - ZOOM_SPEED_DIV

\* The call the registry served last, and whether this step is a call.
LastCall(trace) == trace[Len(trace)]

RegistryCalled == Len(regTrace') = Len(regTrace) + 1

\* A call the registry must refuse: an index past the end, next() at the
\* last scenario, previous() at the first.
Refused(e) ==
    \/ e.name = "switch_to_simulation" /\ e.target >= Len(simulations)
    \/ e.name = "next_simulation" /\ e.before = Len(simulations) - 1
    \/ e.name = "previous_simulation" /\ e.before = 0

\* ------------------------------------------------------------------------
\* Properties
\* ------------------------------------------------------------------------

\* C1: after swap_buffers has been called k times on a fresh resource manager
\* the current index is k mod 2, and it is always 0 or 1.
C1_SwapParity == current_buffer \in {0, 1} /\ current_buffer = swaps % 2

C1_Witness == swaps = 3 /\ current_buffer = 1

\* C2: in every frame the draw call reads the body buffer that the compute
\* dispatch of that frame wrote, not the one the dispatch read.
C2_DrawReadsComputeOutput ==
    FrameCompleted =>
        /\ gpuLog[LogPos(gpuLog, "draw")].read = gpuLog[LogPos(gpuLog, "dispatch")].write
        /\ gpuLog[LogPos(gpuLog, "draw")].read # gpuLog[LogPos(gpuLog, "dispatch")].read

\* C3: for both bind groups, and so in every dispatch of every frame, the
\* buffer the kernel writes differs from the one it reads: bind group 0 reads
\* buffer 0 and writes buffer 1, bind group 1 reads buffer 1 and writes buffer 0.
C3_NoAliasing ==
    /\ \A g \in {0, 1} : ComputeReadBuffer(g) # ComputeWriteBuffer(g)
    /\ ComputeReadBuffer(0) = 0 /\ ComputeWriteBuffer(0) = 1
    /\ ComputeReadBuffer(1) = 1 /\ ComputeWriteBuffer(1) = 0
    /\ \A i \in 1..Len(gpuLog) :
          gpuLog[i].op = "dispatch" =>
              /\ gpuLog[i].read # gpuLog[i].write
              /\ gpuLog[i].read = gpuLog[i].group
              /\ gpuLog[i].write = 1 - gpuLog[i].group

C3_Witness ==
    /\ FrameCompleted
    /\ presents >= 2
    /\ gpuLog[LogPos(gpuLog, "dispatch")].group = 1
    /\ gpuLog[LogPos(gpuLog, "dispatch")].read = 1
    /\ gpuLog[LogPos(gpuLog, "dispatch")].write = 0

\* C4: within one frame the compute dispatch and the draw call use the same
\* bind group, the one selected by the current index at the start of the
\* frame, and the index is not flipped between the two.
C4_SameBindGroup ==
    [][presents' = presents + 1 =>
          /\ gpuLog'[LogPos(gpuLog', "dispatch")].group = current_buffer
          /\ gpuLog'[LogPos(gpuLog', "draw")].group = current_buffer
          /\ LogPos(gpuLog', "dispatch") < LogPos(gpuLog', "draw")
          /\ LogPos(gpuLog', "draw") < LogPos(gpuLog', "swap")]_vars

C4_Witness ==
    /\ FrameCompleted
    /\ current_buffer = 0
    /\ swaps = 2
    /\ gpuLog[LogPos(gpuLog, "dispatch")].group = 1
    /\ gpuLog[LogPos(gpuLog, "draw")].group = 1

\* C5: the index flips exactly once in every frame that reaches present,
\* after the draw call and the present, and no other operation flips it.
C5_SwapOncePerFrame ==
    [][/\ presents' = presents + 1 =>
             /\ current_buffer' = 1 - current_buffer
             /\ swaps' = swaps + 1
             /\ LogCount(gpuLog', "swap") = 1
             /\ LogPos(gpuLog', "draw") < LogPos(gpuLog', "present")
             /\ LogPos(gpuLog', "present") < LogPos(gpuLog', "swap")
       /\ presents' = presents =>
             /\ current_buffer' = current_buffer
             /\ swaps' = swaps]_vars

C5_Witness ==
    /\ presents = 1
    /\ current_buffer = 1
    /\ lastOp.name = "switch_simulation"
    /\ lastOp.ok
    /\ events = 2

\* C6: every frame issues uniform push, compute dispatch, render dispatch,
\* present and buffer swap in that order, preceded by the body push when a
\* switch was pending; a render call that stops at the surface acquisition
\* has issued only the queue writes.
C6_FrameOrder ==
    /\ FrameCompleted =>
          \/ LogOps = <<"write_uniform", "dispatch", "draw", "present", "swap">>
          \/ LogOps = <<"write_bodies", "write_uniform", "dispatch", "draw", "present", "swap">>
    /\ panicked => LogOps \in {<<"write_uniform">>, <<"write_bodies", "write_uniform">>}

C6_Witness == FrameCompleted /\ Len(gpuLog) = 5 /\ presents = 2 /\ events = 1

\* C7: a frame that starts with a scenario switch pending writes the
\* registry's population into the buffer at the current index before the
\* dispatch, that buffer is the one the dispatch reads, and the flag is clear
\* afterwards.
C7_PendingSwitchIsPushed ==
    [][(simulation_changed /\ presents' = presents + 1) =>
          /\ gpuLog'[1].op = "write_bodies"
          /\ gpuLog'[1].buf = current_buffer
          /\ gpuLog'[1].n = Len(bodies)
          /\ LogPos(gpuLog', "dispatch") > 1
          /\ gpuLog'[LogPos(gpuLog', "dispatch")].read = current_buffer
          /\ body_buffers'[current_buffer] = bodies
          /\ ~simulation_changed']_vars

C7_Witness ==
    /\ FrameCompleted
    /\ presents >= 2
    /\ gpuLog[1].op = "write_bodies"
    /\ gpuLog[1].buf = 1
    /\ body_buffers[1] = bodies
    /\ ~simulation_changed

\* C8: for every provider and every count n >= 0, initialize_bodies(n)
\* returns exactly n bodies.
C8_ExactCount == provSim # "none" => Len(provOut) = provCount

\* C9: the population held by the registry always has exactly NUM_BODIES
\* elements.
C9_PopulationSize == Len(bodies) = NUM_BODIES

\* C10: update_bodies called with an array whose length differs from
\* NUM_BODIES is rejected and leaves both body buffers unchanged.
C10_WrongLengthRejected ==
    [][(pushes' = pushes + 1 /\ Len(pushArg') # NUM_BODIES) =>
          /\ pushResult' = "validation_error"
          /\ body_buffers' = body_buffers]_vars

\* C11: switch_to_simulation with an index out of bounds, next_simulation at
\* the last scenario and previous_simulation at the first one each return
\* false and leave the active index and the held population as they were.
C11_RefusedSwitchChangesNothing ==
    [][(RegistryCalled /\ Refused(LastCall(regTrace'))) =>
          /\ ~LastCall(regTrace').ok
          /\ current_simulation_index' = current_simulation_index
          /\ bodies' = bodies]_vars

C11_Witness ==
    /\ Len(regTrace) = 3
    /\ regTrace[1].name = "switch_to_simulation" /\ regTrace[1].target = 1
    /\ regTrace[2].name = "next_simulation"
    /\ regTrace[3].name = "previous_simulation"
    /\ \A i \in 1..3 : ~regTrace[i].ok
    /\ current_simulation_index = 0

\* C12: every switch that is not refused returns true, makes the index asked
\* for (i, index + 1 or index - 1) the active one, and leaves the registry
\* holding exactly what initialize_bodies of the newly active scenario
\* returns for NUM_BODIES.
C12_SwitchReplacesPopulation ==
    [][(RegistryCalled /\ ~Refused(LastCall(regTrace'))) =>
          /\ LastCall(regTrace').ok
          /\ current_simulation_index' = LastCall(regTrace').target
          /\ \E seed \in Seeds :
                bodies' = initialize_bodies(SimulationAt(current_simulation_index'),
                                            NUM_BODIES, seed)]_vars

C12_Witness ==
    /\ Len(regTrace) = 2
    /\ LastCall(regTrace).name = "switch_to_simulation"
    /\ LastCall(regTrace).target = 0
    /\ LastCall(regTrace).ok
    /\ current_simulation_index = 0
    /\ bodies = SolarSystemInitializeBodies(NUM_BODIES, 1)

\* C13: next_simulation followed at once by previous_simulation leaves the
\* index that was active before the two calls.
C13_NextThenPreviousRestores ==
    [][(/\ RegistryCalled
        /\ regTrace # <<>>
        /\ LastCall(regTrace).name = "next_simulation"
        /\ LastCall(regTrace').name = "previous_simulation") =>
          current_simulation_index' = LastCall(regTrace).before]_vars

C13_Witness ==
    /\ Len(regTrace) >= 2
    /\ regTrace[Len(regTrace) - 1].name = "next_simulation"
    /\ LastCall(regTrace).name = "previous_simulation"
    /\ current_simulation_index = regTrace[Len(regTrace) - 1].before

\* C14: a render call, with or without a scenario switch pending, leaves the
\* registry's population and active index as they were; what the kernel
\* writes into the body buffers is never copied back.
C14_FrameLeavesRegistry ==
    [][(presents' # presents \/ panicked' # panicked) =>
          /\ bodies' = bodies
          /\ current_simulation_index' = current_simulation_index]_vars

C14_Witness ==
    /\ presents = 3
    /\ events = 0
    /\ current_simulation_index = 0
    /\ bodies = SolarSystemInitializeBodies(NUM_BODIES, 1)
    /\ \A b \in 0..1 : body_buffers[b] # bodies

\* C15: the Vec that get_bodies returns comes, all of it, from one
\* assignment of the held population, the one before or the one after a
\* switch running at the same time; and no step of the reading thread,
\* overwriting its copy included, changes what the registry holds.
C15_CopyIsWholeAndDetached ==
    [][/\ conc'.reader.pc = "returned" =>
             WholeCopy(conc'.reader.copy, current_simulation_index')
       /\ conc'.reader # conc.reader =>
             /\ bodies' = bodies
             /\ conc'.gen = conc.gen]_vars

C15_Witness ==
    /\ conc.reader.pc = "mutated"
    /\ conc.reader.during = "has_new"
    /\ conc.reader.copy[1].body = NullBody
    /\ conc.reader.copy[2].gen = 0
    /\ conc.gen = 1
    /\ bodies = SolarSystemInitializeBodies(NUM_BODIES, 1)

\* C16: the zoom is within [ZOOM_MIN, ZOOM_MAX] in every state; a zoom call
\* with delta 0 leaves the camera as it was; a zoom call with a large positive
\* delta ends at exactly ZOOM_MAX and one with a large negative delta at
\* exactly ZOOM_MIN, however often it is repeated.
C16_ZoomClamped ==
    /\ [](camera.zoom >= ZOOM_MIN /\ camera.zoom <= ZOOM_MAX)
    /\ [][(EventStep("zoom_camera") \/ EventStep("handle_mouse_wheel")) =>
             /\ lastOp'.arg[1] = 0 => camera' = camera
             /\ lastOp'.arg[1] >= LargeZoomIn => camera'.zoom = ZOOM_MAX
             /\ lastOp'.arg[1] <= LargeZoomOut => camera'.zoom = ZOOM_MIN]_vars

C16_Witness ==
    /\ events = 2
    /\ presents = 0
    /\ lastOp.name = "zoom_camera"
    /\ lastOp.arg[1] <= LargeZoomOut
    /\ camera.zoom = ZOOM_MIN
    /\ simulation_state.view_matrix.eye[2] =
          (camera.base_height * ZOOM_DEFAULT) \div ZOOM_MIN

\* C17: the rotation is never negative and never TAU or more.
C17_RotationHalfOpen == camera.rotation >= 0 /\ camera.rotation < TAU

\* C18: a press makes mouse_pressed true only when ctrl or shift is held at
\* the press; a press with neither held leaves mouse_pressed false.
C18_PressNeedsModifier ==
    [][(EventStep("handle_mouse_press") /\ ~camera.mouse_pressed) =>
          (camera'.mouse_pressed => (app.ctrl_pressed \/ app.shift_pressed))]_vars

C20_ResetGivesDefault ==
    [][EventStep("reset_camera") =>
          /\ camera'.offset = <<0, 0>>
          /\ camera'.zoom = ZOOM_DEFAULT
          /\ camera'.rotation = 0
          /\ ~camera'.mouse_pressed
          /\ camera'.base_height = camera_position(SimulationAt(current_simulation_index))[2]]_vars

C20_Witness ==
    /\ events = 2
    /\ lastOp.name = "reset_camera"
    /\ app.ctrl_pressed
    /\ ~camera.ctrl_pressed
    /\ camera.offset = <<0, 0>>
    /\ camera.zoom = ZOOM_DEFAULT
    /\ camera.rotation = 0
    /\ ~camera.mouse_pressed
    /\ camera.base_height = 100

\* C21: the delta time in the uniform buffer never exceeds MAX_DELTA_TIME;
\* every render call sets it to the elapsed time when that is at most
\* MAX_DELTA_TIME and to MAX_DELTA_TIME otherwise, the first frame included.
C21_DeltaTimeClamped ==
    /\ [](simulation_state_buffer.delta_time <= MAX_DELTA_TIME)
    /\ [][(RenderStep /\ LogHas(gpuLog', "write_uniform")) =>
             /\ lastOp'.arg[1] <= MAX_DELTA_TIME =>
                   simulation_state_buffer'.delta_time = lastOp'.arg[1]
             /\ lastOp'.arg[1] > MAX_DELTA_TIME =>
                   simulation_state_buffer'.delta_time = MAX_DELTA_TIME
             /\ gpuLog'[LogPos(gpuLog', "write_uniform")].n =
                   simulation_state_buffer'.delta_time]_vars

C21_Witness ==
    /\ presents = 1
    /\ events = 0
    /\ lastOp.name = "render"
    /\ lastOp.arg[1] > MAX_DELTA_TIME
    /\ simulation_state_buffer.delta_time = MAX_DELTA_TIME

\* C22: when the last input before a frame was a camera action (pan, zoom,
\* rotate, reset), the view matrix that frame writes to the uniform buffer is
\* the one computed from the camera as that action left it, also when a
\* scenario switch is pending.
C22_FrameReflectsCamera ==
    [][(/\ RenderStep
        /\ LogHas(gpuLog', "write_uniform")
        /\ lastOp.name \in {"pan_camera", "zoom_camera", "rotate_camera", "reset_camera"}) =>
          simulation_state_buffer'.view_matrix =
              calculate_view_matrix(camera,
                                    camera_position(SimulationAt(current_simulation_index)))]_vars

\* C23: a readback whose map request resolves with an error, or whose
\* channel is closed without a message, returns a DebugData of zeros; it
\* still returns.
C23_FailedMapGivesZeros ==
    [][(readback.pc = "received" /\ readback.got # "ok") =>
          /\ readback'.pc = "returned"
          /\ debugOut' = ZeroDebugData]_vars

C23_Witness ==
    /\ readback.pc = "returned"
    /\ readback.got = "error"
    /\ readback.staging.iterations > 0
    /\ debugOut = ZeroDebugData

\* C24: a readback returns only after its map request was resolved and
\* after exactly one recv; the callback runs at most once per request; and
\* once the copy is submitted the call eventually returns.
C24_ReadbackCompletesOnce ==
    /\ [](readback.fired <= 1 /\ readback.received <= 1)
    /\ [](readback.pc \in {"received", "returned"} =>
             /\ readback.received = 1
             /\ readback.sender \in {"sent", "dropped"}
             /\ readback.got = "closed" <=> readback.fired = 0)
    /\ (readback.pc = "copied") ~> (readback.pc = "returned")

C24_Witness ==
    /\ readback.pc = "returned"
    /\ readback.requests = 2
    /\ readback.got = "ok"
    /\ readback.fired = 1
    /\ readback.received = 1
    /\ debugOut.iterations = 2

\* C25: right after construction both body buffers hold exactly NUM_BODIES
\* records, both hold the registry's initial population, the current index
\* is 0 and no scenario switch is pending.
C25_Construction ==
    lastOp.name = "new" =>
        /\ \A b \in 0..1 : Len(body_buffers[b]) = NUM_BODIES
        /\ \A b \in 0..1 : body_buffers[b] = bodies
        /\ current_buffer = 0
        /\ ~simulation_changed

\* C26: a switch that returns false changes nothing in the registry, the
\* renderer or the GPU resources, the pending flag included; and a frame that
\* starts with no switch pending writes no bodies and leaves in the body
\* buffers what the kernel made of their previous contents.
C26_FailedSwitchIsSilent ==
    [][/\ (events' = events + 1 /\ lastOp'.name \in SwitchOps /\ ~lastOp'.ok) =>
             UNCHANGED <<registryVars, resourceVars, rendererVars>>
       /\ (RenderStep /\ ~simulation_changed) =>
             /\ ~LogHas(gpuLog', "write_bodies")
             /\ presents' = presents + 1 =>
                   /\ body_buffers'[Dispatch(gpuLog').write] =
                         Kernel(body_buffers[Dispatch(gpuLog').read], simulation_state'.delta_time)
                   /\ body_buffers'[Dispatch(gpuLog').read] =
                         body_buffers[Dispatch(gpuLog').read]]_vars

C26_Witness ==
    /\ presents = 2
    /\ events = 1
    /\ lastOp.name = "render"
    /\ ~LogHas(gpuLog, "write_bodies")
    /\ body_buffers[0][1].steps = 2
    /\ body_buffers[1][1].steps = 1
    /\ show_info = FALSE

\* C27: a resize sets the recorded size and the projection matrix and leaves
\* the current buffer index, the pending flag, the camera, the view matrix
\* and the registry's index and population as they were.
C27_ResizeOnlyProjection ==
    [][EventStep("resize") =>
          /\ size' = lastOp'.arg
          /\ simulation_state'.projection_matrix.height = ORTHO_HEIGHT
          /\ simulation_state'.projection_matrix.width * size'[2] <= ORTHO_HEIGHT * size'[1]
          /\ simulation_state'.projection_matrix.width * size'[2] > ORTHO_HEIGHT * size'[1] - size'[2]
          /\ simulation_state'.view_matrix = simulation_state.view_matrix
          /\ simulation_state'.delta_time = simulation_state.delta_time
          /\ UNCHANGED <<current_buffer, simulation_changed, camera, registryVars,
                         body_buffers>>]_vars

C27_Witness ==
    /\ events = 2
    /\ presents = 0
    /\ lastOp.name = "resize"
    /\ size = <<800, 600>>
    /\ simulation_state.projection_matrix.width = 666
    /\ camera.zoom = ZOOM_MAX
    /\ simulation_state.view_matrix.eye[2] = 10

\* C28: in the starting state the active scenario is Galaxy, body 0 of its
\* population is the central sun and every other body is a disc body (mass
\* in [0.1, 2.1), in-plane radius in [20, 70]).
C28_StartsWithGalaxy ==
    lastOp.name = "new" =>
        /\ SimulationAt(current_simulation_index) = "Galaxy"
        /\ bodies[1].kind = "sun" /\ bodies[1].sim = "Galaxy"
        /\ \A i \in 2..Len(bodies) : bodies[i].kind = "disc"

\* C29: the workgroup count of every dispatch is the smallest c with
\* c * COMPUTE_WORKGROUP_SIZE >= NUM_BODIES.
C29_WorkgroupCountIsCeiling ==
    FrameCompleted =>
        /\ Dispatch(gpuLog).n * COMPUTE_WORKGROUP_SIZE >= NUM_BODIES
        /\ (Dispatch(gpuLog).n - 1) * COMPUTE_WORKGROUP_SIZE < NUM_BODIES

C29_Witness ==
    /\ FrameCompleted
    /\ presents = 1
    /\ Dispatch(gpuLog).n = 1
    /\ Dispatch(gpuLog).read = 0

\* C30: from the second frame on, the dispatch of a frame reads the buffer
\* the dispatch of the frame before wrote, and writes the one it read.
C30_BuffersAlternate ==
    [][(presents >= 1 /\ presents' = presents + 1) =>
          /\ Dispatch(gpuLog').read = Dispatch(gpuLog).write
          /\ Dispatch(gpuLog').write = Dispatch(gpuLog).read]_vars

C30_Witness ==
    /\ FrameCompleted
    /\ presents = 3
    /\ events = 0
    /\ Dispatch(gpuLog).read = 0
    /\ Dispatch(gpuLog).write = 1
    /\ body_buffers[1][1].steps = 3

\* C31: a frame that finds a switch pending dispatches on a read buffer that
\* holds exactly the registry's new population; every later frame dispatches
\* on the buffer the frame before wrote, which holds the kernel's output for
\* that frame's read buffer; and nothing but a frame writes a body buffer.
C31_DispatchReadsNewScenario ==
    [][/\ presents' = presents + 1 =>
             LET r == Dispatch(gpuLog').read
                 w == Dispatch(gpuLog').write
             IN  /\ simulation_changed => body_buffers'[r] = bodies
                 /\ (~simulation_changed /\ presents >= 1) =>
                       /\ r = Dispatch(gpuLog).write
                       /\ body_buffers'[r] = body_buffers[r]
                 /\ body_buffers'[w] = Kernel(body_buffers'[r], simulation_state'.delta_time)
                 /\ \A i \in 1..Len(body_buffers'[r]) :
                       body_buffers'[r][i].sim = SimulationAt(current_simulation_index)
       /\ ~RenderStep => body_buffers' = body_buffers]_vars

C31_Witness ==
    /\ FrameCompleted
    /\ presents = 3
    /\ events = 1
    /\ lastOp.arg[2] = 0
    /\ ~LogHas(gpuLog, "write_bodies")
    /\ body_buffers[0][1].steps = 1
    /\ body_buffers[1][1].steps = 2

\* C32: the pending flag is clear after every frame; a frame that finds one
\* or more successful switches pending writes the bodies exactly once, and
\* what it writes is the registry's population at that moment, the one of
\* the active scenario; a frame that finds none writes no bodies.
C32_SwitchesMergeIntoOnePush ==
    /\ [](simulation_changed <=> pending_switches > 0)
    /\ [][RenderStep =>
             /\ ~simulation_changed'
             /\ pending_switches = 0 => LogCount(gpuLog', "write_bodies") = 0
             /\ pending_switches >= 1 =>
                   /\ LogCount(gpuLog', "write_bodies") = 1
                   /\ gpuLog'[1].op = "write_bodies"
                   /\ gpuLog'[1].n = Len(bodies)
                   /\ body_buffers'[gpuLog'[1].buf] = bodies
                   /\ bodies = reinitialize_bodies(current_simulation_index, 0)]_vars

C32_Witness ==
    /\ lastOp.name = "render"
    /\ lastOp.ok
    /\ lastOp.arg[2] = 2
    /\ presents = 1
    /\ LogCount(gpuLog, "write_bodies") = 1
    /\ ~simulation_changed

\* C33: after any sequence of switch_to_simulation, next_simulation and
\* previous_simulation the active index is an index of the scenario list, so
\* get_current_simulation finds a scenario there.
C33_IndexInRange ==
    /\ current_simulation_index \in 0..(Len(simulations) - 1)
    /\ SimulationAt(current_simulation_index) \in ScenarioNames

C33_Witness ==
    /\ Len(regTrace) = 4
    /\ regTrace[1].name = "switch_to_simulation" /\ regTrace[1].target = 2147483647
    /\ regTrace[2].name = "switch_to_simulation" /\ regTrace[2].ok
    /\ regTrace[3].name = "next_simulation"
    /\ regTrace[4].name = "previous_simulation"
    /\ current_simulation_index = 0

\* C34: neither a scenario switch nor the frame that pushes its population
\* changes the camera: offset, zoom, rotation and base height after the step
\* are those before it.
C34_SwitchKeepsCamera ==
    [][((events' = events + 1 /\ lastOp'.name \in SwitchOps) \/ RenderStep) =>
          /\ camera'.offset = camera.offset
          /\ camera'.zoom = camera.zoom
          /\ camera'.rotation = camera.rotation
          /\ camera'.base_height = camera.base_height]_vars

C34_Witness ==
    /\ events = 2
    /\ lastOp.name = "switch_simulation"
    /\ lastOp.ok
    /\ simulation_changed
    /\ camera.rotation = 157
    /\ simulation_state.view_matrix.rotation = 157

\* C35: while the button is down and neither ctrl nor shift is held, a move
\* leaves the whole camera, last_mouse_position included, and the view matrix
\* as they were and reports no movement; a later move of the same drag with
\* a modifier held pans or rotates by its distance from that recorded
\* position, also when the cursor has been elsewhere in between.
C35_IdleMoveNotRecorded ==
    [][EventStep("handle_mouse_move") =>
          LET p == lastOp'.arg
              dx == p[1] - camera.last_mouse_position[1]
              dy == p[2] - camera.last_mouse_position[2]
          IN  /\ (camera.mouse_pressed /\ ~camera.ctrl_pressed /\ ~camera.shift_pressed) =>
                    /\ camera' = camera
                    /\ simulation_state' = simulation_state
                    /\ ~lastOp'.ok
              /\ (camera.mouse_pressed /\ camera.last_mouse_position # app.last_cursor) =>
                    /\ camera.ctrl_pressed =>
                          camera'.offset = CameraPan(camera, dx, dy).offset
                    /\ (~camera.ctrl_pressed /\ camera.shift_pressed) =>
                          camera'.rotation = CameraRotate(camera, dx).rotation]_vars

\* The drag after an unrecorded move, with ctrl now held: the recorded
\* position is still the one of the press, the cursor is elsewhere.
C35_Witness ==
    /\ events = 3
    /\ lastOp.name = "handle_key_state"
    /\ camera.mouse_pressed
    /\ camera.ctrl_pressed
    /\ ~camera.shift_pressed
    /\ camera.offset = <<0, 0>>
    /\ camera.last_mouse_position = <<0, 0>>
    /\ app.last_cursor = <<157, 0>>

\* C36: during a drag the camera's modifier flags are the modifiers held
\* now; a move with both ctrl and shift held pans by the distance from the
\* recorded position and leaves the rotation alone, whatever was held when
\* the button went down.
C36_CtrlBeforeShift ==
    /\ [](camera.mouse_pressed =>
             /\ camera.ctrl_pressed = app.ctrl_pressed
             /\ camera.shift_pressed = app.shift_pressed)
    /\ [][(/\ EventStep("handle_mouse_move")
           /\ camera.mouse_pressed /\ app.ctrl_pressed /\ app.shift_pressed) =>
             /\ camera'.rotation = camera.rotation
             /\ camera'.zoom = camera.zoom
             /\ camera'.offset =
                   CameraPan(camera, lastOp'.arg[1] - camera.last_mouse_position[1],
                             lastOp'.arg[2] - camera.last_mouse_position[2]).offset
             /\ lastOp'.ok]_vars

C36_Witness ==
    /\ events = 5
    /\ lastOp.name = "handle_mouse_move"
    /\ lastOp.ok
    /\ camera.mouse_pressed
    /\ camera.ctrl_pressed
    /\ camera.shift_pressed
    /\ camera.rotation = 157
    /\ camera.offset = <<0, -157>>

\* C37: pan_camera changes no field of the camera but offset, zoom_camera
\* none but zoom, rotate_camera none but rotation; and none of the three
\* changes the current buffer index, the pending flag, the registry or the
\* modifier state and cursor position the application tracks.
C37_CameraOpsAreLocal ==
    [][/\ EventStep("pan_camera") => camera' = [camera EXCEPT !.offset = camera'.offset]
       /\ EventStep("zoom_camera") => camera' = [camera EXCEPT !.zoom = camera'.zoom]
       /\ EventStep("rotate_camera") => camera' = [camera EXCEPT !.rotation = camera'.rotation]
       /\ (EventStep("pan_camera") \/ EventStep("zoom_camera") \/ EventStep("rotate_camera")) =>
             UNCHANGED <<current_buffer, simulation_changed, registryVars, app, body_buffers>>]_vars

C37_Witness ==
    /\ events = 2
    /\ lastOp.name = "pan_camera"
    /\ lastOp.arg = <<0, 10>>
    /\ camera.rotation = 157
    /\ camera.offset = <<-10, 0>>
    /\ camera.zoom = ZOOM_DEFAULT

====
